---- MODULE Spec2Model ----
(***************************************************************************)
(* A model of python_sarlac/sarlac.py: the command line flow of main(),    *)
(* the configuration file resolution and loading, and the regular          *)
(* expression match-and-substitute engine.                                 *)
(*                                                                         *)
(* Python values.  A str is a tuple of one-character strings.  A value    *)
(* that may be None (an option that was not given, the result of          *)
(* _run_subs, sub_rules) is either None or a record; a str that may be    *)
(* None is wrapped as Str(s).  A dict is a function from its keys, so a   *)
(* missing key is a key outside DOMAIN.  File names are atomic strings.    *)
(*                                                                         *)
(* Regular expressions.  The model covers the dialect made of literal    *)
(* characters, "." (any character but a newline), "^" (start of the       *)
(* string) and "(" (opens a group; no token closes one, so every pattern  *)
(* holding it is rejected by re.compile).  Every match of such a pattern  *)
(* has the same width.  Replacement templates are literal text (no        *)
(* backslash, so no group reference).                                      *)
(***************************************************************************)
EXTENDS Integers, Sequences, FiniteSets, TLC

VARIABLES
    match_pattern,    \* -m/--match as click hands it to main: None or Str(s)
    replace_pattern,  \* -r/--replace: None or Str(s)
    cli_args,         \* the positional arguments, a tuple of str
    envfile,          \* os.getenv('SARLAC_CONFIG'): None or [val |-> path]
    homeIsFile,       \* what homefile.is_file() answered
    pc,               \* the statement main() is at
    error,            \* the exception that ended the run, "None" while there is none
    helped,           \* the help text was printed
    sub_rules,        \* main's sub_rules: None or a dict with key substitutions
    configfile,       \* main's config
    file,             \* what open(configfile) found: Unopened, Missing or Found(doc)
    opened,           \* the paths handed to open()
    i,                \* position of the for loop over cli_args
    stdin_read,       \* the lines the for loop took from standard input
    evaluated,        \* the strings handed to _run_subs, in order
    results,          \* the values _run_subs returned, in order
    out               \* the lines click.echo wrote, in order, without terminator

vars == <<match_pattern, replace_pattern, cli_args, envfile, homeIsFile, pc, error,
          helped, sub_rules, configfile, file, opened, i, stdin_read, evaluated,
          results, out>>

inputs == <<match_pattern, replace_pattern, cli_args, envfile>>

(***************************************************************************)
(* Bounds                                                                  *)
(***************************************************************************)
MaxArgs == 2       \* positional arguments of a run
MaxLines == 2      \* lines read from standard input in a run
MaxDocRules == 2   \* entries of a configuration document in a run
MaxRules == 2      \* rules of a rule set handed to the engine
MaxPatLen == 1     \* tokens of a rule's pattern, a few longer ones apart
MaxLen == 3        \* characters of an engine input

(***************************************************************************)
(* Python values                                                           *)
(***************************************************************************)
None == [none |-> TRUE]

Str(s) == [val |-> s]

Truthy(o) == o # None /\ o.val # <<>>

SeqsUpTo(S, n) == UNION {[1..k -> S] : k \in 0..n}

globalfile == "/usr/local/etc/sarlac.yaml"

homefile == "~/.sarlac.yaml"

EnvPath == "/tmp/alt.yaml"

Unopened == [state |-> "unopened"]

Missing == [state |-> "missing"]

Found(doc) == [state |-> "found", doc |-> doc]

Whitespace == {" ", "\t", "\n", "\r"}

(***************************************************************************)
(* re: compiling, matching at the start, substituting                      *)
(***************************************************************************)
RECURSIVE OpenGroups(_, _)
\* The groups a pattern leaves open, counted from token k on.
OpenGroups(p, k) ==
    IF k > Len(p) THEN 0
    ELSE (IF p[k] = "(" THEN 1 ELSE 0) + OpenGroups(p, k + 1)

\* A compile that accepts every pattern.
re_valid_lax(p) == TRUE

\* re.compile(p) succeeds; otherwise it raises re.error.
re_valid(p) == OpenGroups(p, 1) = 0

\* The pattern object re.compile(p) returns.
re_compile(p) == [pattern |-> p]

RECURSIVE MatchEnd(_, _, _, _)
\* Tokens k.. of p matched against s from offset pos (0-based): the offset
\* the match ends at, or -1 when there is none.
MatchEnd(p, k, s, pos) ==
    IF k > Len(p) THEN pos
    ELSE IF p[k] = "^" THEN
        IF pos = 0 THEN MatchEnd(p, k + 1, s, pos) ELSE -1
    ELSE IF pos >= Len(s) THEN -1
    ELSE IF p[k] = "." THEN
        IF s[pos + 1] # "\n" THEN MatchEnd(p, k + 1, s, pos + 1) ELSE -1
    ELSE
        IF s[pos + 1] = p[k] THEN MatchEnd(p, k + 1, s, pos + 1) ELSE -1

\* Pattern.search: a match beginning anywhere.
re_search(c, s) == \E pos \in 0..Len(s) : MatchEnd(c.pattern, 1, s, pos) >= 0

\* Pattern.match(s) is not None: a match beginning at the first character.
re_match(c, s) == MatchEnd(c.pattern, 1, s, 0) >= 0

RECURSIVE SubFrom(_, _, _, _)
\* The scan of re.sub from offset pos: the leftmost match is replaced and the
\* scan goes on behind it; an empty match is followed by one copied character.
SubFrom(p, repl, s, pos) ==
    IF pos > Len(s) THEN <<>>
    ELSE LET e == MatchEnd(p, 1, s, pos)
             copy == IF pos < Len(s)
                     THEN <<s[pos + 1]>> \o SubFrom(p, repl, s, pos + 1)
                     ELSE <<>>
         IN IF e < 0 THEN copy
            ELSE IF e = pos THEN repl \o copy
            ELSE repl \o SubFrom(p, repl, s, e)

RECURSIVE SubFirstFrom(_, _, _, _)
SubFirstFrom(p, repl, s, pos) ==
    IF pos > Len(s) THEN <<>>
    ELSE LET e == MatchEnd(p, 1, s, pos)
         IN IF e < 0
            THEN IF pos < Len(s)
                 THEN <<s[pos + 1]>> \o SubFirstFrom(p, repl, s, pos + 1)
                 ELSE <<>>
            ELSE repl \o SubSeq(s, e + 1, Len(s))

\* re.sub with count=1: only the first occurrence is replaced.
re_sub_first(c, repl, s) == SubFirstFrom(c.pattern, repl, s, 0)

\* re.sub(c, repl, s)
re_sub(c, repl, s) == SubFrom(c.pattern, repl, s, 0)

RECURSIVE rstrip(_)
\* str.rstrip() without argument: trailing whitespace of every kind goes.
rstrip(s) ==
    IF s # <<>> /\ s[Len(s)] \in Whitespace THEN rstrip(SubSeq(s, 1, Len(s) - 1)) ELSE s

(***************************************************************************)
(* The functions of sarlac.py                                              *)
(***************************************************************************)
\* The test with "is not None" in place of truthiness.
_adhoc_selected_lax(m, r) == m # None /\ r # None

\* if match_pattern and replace_pattern
_adhoc_selected(m, r) == Truthy(m) /\ Truthy(r)

\* _generate_cli_adhoc_rules, for a pattern that compiles
_generate_cli_adhoc_rules(m, r) ==
    IF _adhoc_selected(m, r)
    THEN [substitutions |-> <<[match |-> re_compile(m.val), replace |-> r.val]>>]
    ELSE None

\* The home file consulted last, so that it beats the override.
_get_config_filename_home_first(env, isfile) ==
    LET c0 == globalfile
        c1 == IF env # None /\ env.val # "" THEN env.val ELSE c0
    IN IF isfile THEN homefile ELSE c1

\* _get_config_filename: the default, overridden by the home file, overridden
\* by the environment variable.
_get_config_filename(env, isfile) ==
    LET c0 == globalfile
        c1 == IF isfile THEN homefile ELSE c0
    IN IF env # None /\ env.val # "" THEN env.val ELSE c1

RECURSIVE RunSubsFrom(_, _, _)
\* The for loop of _run_subs from rule k on; rule['replace'] is looked up only
\* once the rule has matched.
RunSubsFrom(rules, k, instr) ==
    IF k > Len(rules) THEN [raised |-> "None", value |-> None]
    ELSE IF re_match(rules[k].match, instr)
         THEN IF "replace" \in DOMAIN rules[k]
              THEN [raised |-> "None",
                    value |-> Str(re_sub(rules[k].match, rules[k].replace, instr))]
              ELSE [raised |-> "KeyError", value |-> None]
         ELSE RunSubsFrom(rules, k + 1, instr)

RECURSIVE RunSubsBack(_, _, _)
RunSubsBack(rules, k, instr) ==
    IF k < 1 THEN [raised |-> "None", value |-> None]
    ELSE IF re_match(rules[k].match, instr)
         THEN IF "replace" \in DOMAIN rules[k]
              THEN [raised |-> "None",
                    value |-> Str(re_sub(rules[k].match, rules[k].replace, instr))]
              ELSE [raised |-> "KeyError", value |-> None]
         ELSE RunSubsBack(rules, k - 1, instr)

\* A loop that keeps the last matching rule.
_run_subs_last(rules, instr) ==
    RunSubsBack(rules.substitutions, Len(rules.substitutions), instr)

\* _run_subs
_run_subs(rules, instr) == RunSubsFrom(rules.substitutions, 1, instr)

RECURSIVE CompileFrom(_, _)
\* The for loop of _parse_config from entry k on: each entry's match is
\* replaced in place by its compiled pattern; the first entry without match,
\* or whose match does not compile, raises.
CompileFrom(rules, k) ==
    IF k > Len(rules) THEN [raised |-> "None", value |-> rules]
    ELSE IF "match" \notin DOMAIN rules[k] THEN [raised |-> "KeyError", value |-> None]
    ELSE IF ~re_valid(rules[k].match) THEN [raised |-> "re.error", value |-> None]
    ELSE CompileFrom(
            [rules EXCEPT ![k] = [key \in DOMAIN rules[k] |->
                IF key = "match" THEN re_compile(rules[k].match) ELSE rules[k][key]]],
            k + 1)

\* _parse_config, given what open(configfile) finds
_parse_config(f) ==
    IF f.state # "found" THEN [raised |-> "FileNotFoundError", value |-> None]
    ELSE IF "substitutions" \notin DOMAIN f.doc THEN [raised |-> "KeyError", value |-> None]
    ELSE LET c == CompileFrom(f.doc.substitutions, 1)
         IN IF c.raised # "None" THEN c
            ELSE [raised |-> "None", value |-> [substitutions |-> c.value]]

\* click.echo(message): one line per call; a message of None writes the bare
\* line terminator.
click_echo(stdout, message) ==
    Append(stdout, IF message = None THEN <<>> ELSE message.val)

(***************************************************************************)
(* The inputs of a run                                                     *)
(***************************************************************************)
CliPatterns == {<<>>, <<"a">>, <<"(">>}

CliReplaces == {<<>>, <<"b">>}

ArgStrs == {<<"a">>, <<"b", "a">>, <<"-">>}

EnvValues == {None, [val |-> ""], [val |-> EnvPath]}

\* Entries of a configuration document: complete ones, one whose pattern does
\* not compile, one without replace, one without match.
DocEntries ==
    { [match |-> <<"a">>, replace |-> <<"b">>],
      [match |-> <<".">>, replace |-> <<>>],
      [match |-> <<"(">>, replace |-> <<"b">>],
      [match |-> <<"a">>],
      [replace |-> <<"b">>] }

\* What yaml.safe_load returns: a mapping with or without the key substitutions.
Docs ==
    {[rules |-> <<>>]} \cup {[substitutions |-> es] : es \in SeqsUpTo(DocEntries, MaxDocRules)}

Files == {Missing} \cup {Found(d) : d \in Docs}

\* Lines as iterating the standard input yields them, terminator included.
StdinLines == {<<"a", "\n">>, <<"a", " ", "\n">>, <<"b", "a", "\n">>}

\* The inputs of the engine: patterns of the dialect that compile, literal
\* replacements, input strings.
PatTokens == {"a", "."}

Patterns ==
    SeqsUpTo(PatTokens, MaxPatLen) \cup {<<"a", "a">>, <<"a", ".">>, <<"^">>, <<"^", "a">>}

Replacements == {<<>>, <<"b">>}

Strings == SeqsUpTo({"a", "b"}, MaxLen)

RawRules == {[match |-> p, replace |-> r] : p \in Patterns, r \in Replacements}

(***************************************************************************)
(* main                                                                    *)
(***************************************************************************)
Init ==
    /\ match_pattern \in {None} \cup {Str(p) : p \in CliPatterns}
    /\ replace_pattern \in {None} \cup {Str(r) : r \in CliReplaces}
    /\ cli_args \in SeqsUpTo(ArgStrs, MaxArgs)
    /\ envfile \in EnvValues
    /\ homeIsFile = FALSE
    /\ pc = "main"
    /\ error = "None"
    /\ helped = FALSE
    /\ sub_rules = None
    /\ configfile = ""
    /\ file = Unopened
    /\ opened = {}
    /\ i = 0
    /\ stdin_read = <<>>
    /\ evaluated = <<>>
    /\ results = <<>>
    /\ out = <<>>

\* The help shortcut of main: no option with a value and no argument.
HelpShortcut == ~Truthy(match_pattern) /\ ~Truthy(replace_pattern) /\ cli_args = <<>>

\* main, line 47-48: _print_help echoes the help and ctx.exit() ends the run.
PrintHelp ==
    /\ pc = "main" /\ error = "None"
    /\ HelpShortcut
    /\ helped' = TRUE
    /\ pc' = "exited"
    /\ UNCHANGED <<inputs, homeIsFile, error, sub_rules, configfile, file, opened, i,
                   stdin_read, evaluated, results, out>>

\* main, line 49: the ad-hoc rule set, or None; re.compile may raise.
GenerateCliAdhocRules ==
    /\ pc = "main" /\ error = "None"
    /\ ~HelpShortcut
    /\ IF _adhoc_selected(match_pattern, replace_pattern) /\ ~re_valid(match_pattern.val)
       THEN error' = "re.error" /\ UNCHANGED <<sub_rules, pc>>
       ELSE /\ sub_rules' = _generate_cli_adhoc_rules(match_pattern, replace_pattern)
            /\ pc' = "get_config"
            /\ UNCHANGED error
    /\ UNCHANGED <<inputs, homeIsFile, helped, configfile, file, opened, i, stdin_read,
                   evaluated, results, out>>

\* main, line 50-51: the configuration file name is resolved in every run.
GetConfigFilename ==
    /\ pc = "get_config" /\ error = "None"
    /\ \E isfile \in BOOLEAN :
        /\ homeIsFile' = isfile
        /\ configfile' = _get_config_filename(envfile, isfile)
    /\ pc' = IF sub_rules = None THEN "parse_config" ELSE "process_input"
    /\ UNCHANGED <<inputs, error, helped, sub_rules, file, opened, i, stdin_read,
                   evaluated, results, out>>

\* main, line 52: the file is opened and parsed.
ParseConfig ==
    /\ pc = "parse_config" /\ error = "None"
    /\ \E f \in Files :
        /\ file' = f
        /\ opened' = opened \cup {configfile}
        /\ LET r == _parse_config(f)
           IN IF r.raised # "None"
              THEN error' = r.raised /\ UNCHANGED <<sub_rules, pc>>
              ELSE sub_rules' = r.value /\ pc' = "process_input" /\ UNCHANGED error
    /\ UNCHANGED <<inputs, homeIsFile, helped, configfile, i, stdin_read, evaluated,
                   results, out>>

\* _process_input, line 88: cli_args[-1] raises on the empty tuple.
ProcessInput ==
    /\ pc = "process_input" /\ error = "None"
    /\ IF cli_args = <<>>
       THEN error' = "IndexError" /\ UNCHANGED <<pc, i>>
       ELSE IF cli_args[Len(cli_args)] = <<"-">>
            THEN pc' = "stdin" /\ UNCHANGED <<error, i>>
            ELSE pc' = "args" /\ i' = 1 /\ UNCHANGED error
    /\ UNCHANGED <<inputs, homeIsFile, helped, sub_rules, configfile, file, opened,
                   stdin_read, evaluated, results, out>>

\* out = _run_subs(sub_rules, instr); click.echo(out)
RunAndEcho(instr, next) ==
    LET r == _run_subs(sub_rules, instr)
    IN /\ evaluated' = Append(evaluated, instr)
       /\ IF r.raised # "None"
          THEN error' = r.raised /\ UNCHANGED <<results, out, pc>>
          ELSE /\ results' = Append(results, r.value)
               /\ out' = click_echo(out, r.value)
               /\ pc' = next
               /\ UNCHANGED error

\* _process_input, line 94-96: one positional argument.
ProcessArg ==
    /\ pc = "args" /\ error = "None"
    /\ i <= Len(cli_args)
    /\ RunAndEcho(cli_args[i], IF i = Len(cli_args) THEN "ctx_exit" ELSE "args")
    /\ i' = i + 1
    /\ UNCHANGED <<inputs, homeIsFile, helped, sub_rules, configfile, file, opened,
                   stdin_read>>

\* _process_input, line 90-92: one line of standard input.
ProcessLine ==
    /\ pc = "stdin" /\ error = "None"
    /\ Len(stdin_read) < MaxLines
    /\ \E line \in StdinLines :
        /\ stdin_read' = Append(stdin_read, line)
        /\ RunAndEcho(rstrip(line), "stdin")
    /\ UNCHANGED <<inputs, homeIsFile, helped, sub_rules, configfile, file, opened, i>>

\* _process_input, line 90: standard input is at its end.
StdinEOF ==
    /\ pc = "stdin" /\ error = "None"
    /\ pc' = "ctx_exit"
    /\ UNCHANGED <<inputs, homeIsFile, error, helped, sub_rules, configfile, file,
                   opened, i, stdin_read, evaluated, results, out>>

\* main, line 54: ctx.exit()
CtxExit ==
    /\ pc = "ctx_exit" /\ error = "None"
    /\ pc' = "exited"
    /\ UNCHANGED <<inputs, homeIsFile, error, helped, sub_rules, configfile, file,
                   opened, i, stdin_read, evaluated, results, out>>

Next ==
    \/ PrintHelp
    \/ GenerateCliAdhocRules
    \/ GetConfigFilename
    \/ ParseConfig
    \/ ProcessInput
    \/ ProcessArg
    \/ ProcessLine
    \/ StdinEOF
    \/ CtxExit

Spec == Init /\ [][Next]_vars

(***************************************************************************)
(* The engine on its own: one input evaluated against a loaded rule set    *)
(***************************************************************************)
InitSubs ==
    /\ match_pattern = None
    /\ replace_pattern = None
    /\ \E s \in Strings : cli_args = <<s>>
    /\ envfile = None
    /\ homeIsFile = FALSE
    /\ pc = "args"
    /\ error = "None"
    /\ helped = FALSE
    /\ \E es \in SeqsUpTo(RawRules, MaxRules) :
        /\ file = Found([substitutions |-> es])
        /\ sub_rules = _parse_config(Found([substitutions |-> es])).value
    /\ configfile = globalfile
    /\ opened = {globalfile}
    /\ i = 1
    /\ stdin_read = <<>>
    /\ evaluated = <<>>
    /\ results = <<>>
    /\ out = <<>>

NextSubs == ProcessArg \/ CtxExit

SpecSubs == InitSubs /\ [][NextSubs]_vars

(***************************************************************************)
(* What the properties speak of, stated apart from the engine's loops      *)
(***************************************************************************)
\* The tokens of p that consume a character.
Consuming(p) == SelectSeq(p, LAMBDA tok : tok # "^")

\* p occurs in s at offset q: its consuming tokens fit the characters from q
\* on, and a "^" stands only where nothing was consumed, at offset 0.
OccursAt(p, s, q) ==
    LET toks == Consuming(p)
    IN /\ q + Len(toks) <= Len(s)
       /\ \A j \in 1..Len(toks) :
            \/ toks[j] = s[q + j]
            \/ toks[j] = "." /\ s[q + j] # "\n"
       /\ \A k \in 1..Len(p) :
            p[k] = "^" => (q = 0 /\ \A j \in 1..(k - 1) : p[j] = "^")

\* The rules whose pattern occurs at the first character of s.
MatchingRules(rules, s) ==
    {k \in 1..Len(rules) : OccursAt(rules[k].match.pattern, s, 0)}

FirstMatching(rules, s) ==
    CHOOSE k \in MatchingRules(rules, s) : \A j \in MatchingRules(rules, s) : k <= j

\* The leftmost non-overlapping occurrences of p in s.
Occurrences(p, s) ==
    LET w == Len(Consuming(p))
        upto[q \in -1..Len(s)] ==
            IF q = -1 THEN {}
            ELSE IF OccursAt(p, s, q) /\ \A c \in upto[q - 1] : c + w <= q
                 THEN upto[q - 1] \cup {q}
                 ELSE upto[q - 1]
    IN upto[Len(s)]

\* s with each of these occurrences replaced by repl and all else kept.
AllReplaced(p, repl, s) ==
    LET w == Len(Consuming(p))
        occ == Occurrences(p, s)
        piece(q) == (IF q \in occ THEN repl ELSE <<>>)
                    \o (IF q < Len(s) /\ ~\E c \in occ : c <= q /\ q < c + w
                        THEN <<s[q + 1]>> ELSE <<>>)
        from[q \in 0..(Len(s) + 1)] ==
            IF q > Len(s) THEN <<>> ELSE piece(q) \o from[q + 1]
    IN from[0]

Rules == IF sub_rules = None THEN <<>> ELSE sub_rules.substitutions

BothGiven ==
    /\ match_pattern # None /\ match_pattern.val # <<>>
    /\ replace_pattern # None /\ replace_pattern.val # <<>>

LastArgIsDash == cli_args # <<>> /\ cli_args[Len(cli_args)] = <<"-">>

(***************************************************************************)
(* Properties                                                              *)
(***************************************************************************)

\* C1: first match wins.  Every value _run_subs returned is None when no rule
\* matches the input at its start, and otherwise the substitution of the
\* matching rule with the smallest index, whatever later rules match.
C1_FirstMatchWins ==
    \A n \in 1..Len(results) :
        LET s == evaluated[n]
        IN IF MatchingRules(Rules, s) = {}
           THEN results[n] = None
           ELSE LET k == FirstMatching(Rules, s)
                IN results[n] = Str(AllReplaced(Rules[k].match.pattern, Rules[k].replace, s))

\* Two rules match the input, they give different strings, and cascading them
\* gives a third; the first one's string was returned.
C1_Witness ==
    /\ Len(results) = 1 /\ Len(Rules) = 2
    /\ MatchingRules(Rules, evaluated[1]) = {1, 2}
    /\ LET s == evaluated[1]
           r1 == AllReplaced(Rules[1].match.pattern, Rules[1].replace, s)
           r2 == AllReplaced(Rules[2].match.pattern, Rules[2].replace, s)
           r12 == AllReplaced(Rules[2].match.pattern, Rules[2].replace, r1)
       IN r1 # r2 /\ r12 # r1 /\ results[1] = Str(r1)

\* C2: matching is anchored at the start.  _run_subs returns a string exactly
\* when some rule's pattern occurs at the first character of the input (a
\* prefix is enough); a pattern that occurs only further right selects nothing.
C2_StartAnchored ==
    \A n \in 1..Len(results) :
        (results[n] # None) <=>
            \E k \in 1..Len(Rules) : OccursAt(Rules[k].match.pattern, evaluated[n], 0)

\* A rule's pattern occurs in the input, but only after the first character,
\* and the no-match signal was returned.
C2_Witness ==
    /\ Len(results) = 1 /\ Len(Rules) >= 1
    /\ results[1] = None
    /\ \E k \in 1..Len(Rules) : \E q \in 1..Len(evaluated[1]) :
         /\ Consuming(Rules[k].match.pattern) # <<>>
         /\ OccursAt(Rules[k].match.pattern, evaluated[1], q)

\* C3: the selected rule replaces every non-overlapping occurrence of its
\* pattern in the input, the ones right of the first character too.
C3_AllOccurrences ==
    \A n \in 1..Len(results) :
        results[n] # None =>
            LET s == evaluated[n]
                k == FirstMatching(Rules, s)
            IN results[n].val = AllReplaced(Rules[k].match.pattern, Rules[k].replace, s)

\* match "a", replace "b", input "aaa": "bbb" came back.
C3_Witness ==
    /\ Rules = <<[match |-> [pattern |-> <<"a">>], replace |-> <<"b">>]>>
    /\ evaluated = <<<<"a", "a", "a">>>>
    /\ results = <<Str(<<"b", "b", "b">>)>>

\* C4: an input no rule matches gives None and no output line, so that the
\* lines written are as many as the inputs that matched.
C4_NoMatchSuppressesOutput ==
    /\ \A n \in 1..Len(results) :
         MatchingRules(Rules, evaluated[n]) = {} => results[n] = None
    /\ Len(out) = Cardinality({n \in 1..Len(results) : results[n] # None})

\* C5: the rule set is the single ad-hoc rule, and no configuration file is
\* opened, exactly when both -m and -r have a non-empty value; otherwise the
\* rule set is the content of the resolved configuration file, and a lone
\* option neither raises nor leaves the rule set empty.
C5_RuleSourceSelection ==
    /\ opened # {} => ~BothGiven
    /\ (BothGiven /\ pc # "main") =>
         /\ sub_rules = [substitutions |->
                <<[match |-> [pattern |-> match_pattern.val],
                   replace |-> replace_pattern.val]>>]
         /\ file = Unopened
    /\ (~BothGiven /\ pc # "main" /\ ~helped) =>
         IF sub_rules = None
         THEN pc \in {"get_config", "parse_config"}
         ELSE /\ opened = {configfile}
              /\ file.state = "found"
              /\ "substitutions" \in DOMAIN file.doc
              /\ Len(Rules) = Len(file.doc.substitutions)
              /\ \A k \in 1..Len(Rules) :
                   LET e == file.doc.substitutions[k]
                   IN /\ DOMAIN Rules[k] = DOMAIN e
                      /\ Rules[k].match.pattern = e.match
                      /\ "replace" \in DOMAIN e => Rules[k].replace = e.replace
    /\ (~BothGiven /\ error # "None") => pc # "main"

\* Only -m was given: the rules came from the file and one of them was applied.
C5_Witness ==
    /\ Truthy(match_pattern) /\ replace_pattern = None
    /\ file.state = "found" /\ Len(Rules) >= 1
    /\ Len(results) >= 1 /\ results[1] # None

\* C6: the resolved path is the override when it is non-empty, else the home
\* file when one is there, else the system-wide file; resolving never raises.
C6_ConfigPrecedence ==
    /\ pc = "get_config" => error = "None"
    /\ (pc \notin {"main", "get_config"} /\ ~helped) =>
         configfile = IF envfile # None /\ envfile.val # "" THEN envfile.val
                      ELSE IF homeIsFile THEN homefile
                      ELSE globalfile

\* The override won over a home file that is there, and no file is at the
\* override's path.
C6_Witness ==
    /\ envfile = [val |-> EnvPath] /\ homeIsFile
    /\ configfile = EnvPath /\ file = Missing

\* C7: a configuration file that is missing, has no substitutions key, or
\* holds an entry at any position whose pattern does not compile makes the
\* load raise: no rule set comes back, no input is evaluated, no line written.
C7_LoadFailuresFatal ==
    LET unbalanced(p) == \E k \in 1..Len(p) : p[k] = "("
        fails == \/ file = Missing
                 \/ /\ file.state = "found"
                    /\ \/ "substitutions" \notin DOMAIN file.doc
                       \/ \E k \in 1..Len(file.doc.substitutions) :
                            /\ "match" \in DOMAIN file.doc.substitutions[k]
                            /\ unbalanced(file.doc.substitutions[k].match)
    IN fails => /\ error # "None" /\ pc = "parse_config"
                /\ sub_rules = None
                /\ evaluated = <<>> /\ out = <<>>

\* The second entry's pattern does not compile, the first one's does; the run
\* had inputs and ended in the load.
C7_Witness ==
    /\ file.state = "found" /\ "substitutions" \in DOMAIN file.doc
    /\ Len(file.doc.substitutions) = 2
    /\ file.doc.substitutions[1] = [match |-> <<"a">>, replace |-> <<"b">>]
    /\ file.doc.substitutions[2] = [match |-> <<"(">>, replace |-> <<"b">>]
    /\ cli_args # <<>> /\ error = "re.error" /\ sub_rules = None

\* C8: an entry without match or without replace makes the load fail before
\* any input is evaluated, so evaluating a loaded rule set never raises.
C8_IncompleteEntriesRejected ==
    /\ ( /\ file.state = "found" /\ "substitutions" \in DOMAIN file.doc
         /\ \E k \in 1..Len(file.doc.substitutions) :
              DOMAIN file.doc.substitutions[k] # {"match", "replace"} )
       => (sub_rules = None /\ error # "None" /\ evaluated = <<>>)
    /\ pc \in {"args", "stdin"} => error = "None"

\* C9: with "-" as last argument the engine gets each line of standard input,
\* in order, less its line terminator only; otherwise it gets the positional
\* arguments in order and standard input is not read.
C9_StdinMode ==
    LET chomp(line) == IF line # <<>> /\ line[Len(line)] = "\n"
                       THEN SubSeq(line, 1, Len(line) - 1) ELSE line
    IN IF LastArgIsDash
       THEN /\ Len(evaluated) = Len(stdin_read)
            /\ \A n \in 1..Len(evaluated) : evaluated[n] = chomp(stdin_read[n])
       ELSE /\ stdin_read = <<>>
            /\ evaluated = SubSeq(cli_args, 1, Len(evaluated))

\* C10: with -m or -r given and no positional argument, once the rule set is
\* built the run evaluates nothing, writes nothing and does not raise.
C10_NoInputsCompletes ==
    ( /\ Truthy(match_pattern) \/ Truthy(replace_pattern)
      /\ cli_args = <<>>
      /\ sub_rules # None )
    => (error = "None" /\ evaluated = <<>> /\ out = <<>>)

====
